---- MODULE Spec2Model ----
(***************************************************************************)
(* Model of the two syntax-tree scanners of please-vscode:                 *)
(*   scripts/rule_calls.py      get_rule_calls + its __main__ block        *)
(*   scripts/test_functions.py  get_test_functions + its __main__ block    *)
(*                                                                         *)
(* A source text is a sequence of written statements.  Parse turns a text  *)
(* into the tree ast.parse builds (typed nodes with line numbers) or into  *)
(* SyntaxError.  The walkers are the loops of the two functions.           *)
(***************************************************************************)
EXTENDS Integers, Sequences, FiniteSets, TLC

VARIABLES
    tool,        \* "rule_calls" | "test_functions": which script runs
    variant,     \* "argument": scripts/*.py run as a program, "stream": the
                 \* variant reading standard input, "import": a caller that
                 \* imports the module and calls the function
    argv,        \* sys.argv[1:], a sequence of file names
    fs,          \* file name -> [status, text]
    stdin,       \* the text waiting on standard input
    pc,          \* position of the process
    handle,      \* "none" | "open" | "closed": the object bound to f
    read_data,   \* local read_data
    module_ast,  \* local module_ast
    result,      \* local calls / funcs
    stdout,      \* what was printed, in order
    exit_code,   \* -1 while running
    exc,         \* the exception in flight or that ended the call, or "none"
    invocations, \* number of finished get_* calls of an importing caller
    returned     \* per function, [text, list] of every call that returned

vars == <<tool, variant, argv, fs, stdin, pc, handle, read_data, module_ast,
          result, stdout, exit_code, exc, invocations, returned>>

----------------------------------------------------------------------------
(* Bounds of the inputs *)

MaxStmts == 2

MaxKw == 2

MaxNodes == 3

MaxArgs == 2

MaxInvocations == 3

----------------------------------------------------------------------------
(* Source texts.  A written statement is a record                          *)
(*   kind  "call" | "assign" | "pass" | "if" | "def" | "async def" |       *)
(*         "class" | "unterminated"                                        *)
(*   func  the called expression of a call, a dotted path                  *)
(*   kws   the keyword arguments of a call, as written                     *)
(*   sep   "nl": starts a new line, ";": follows the previous statement    *)
(*         on its last line                                                *)
(*   name  the declared name of a def / class, a sequence of characters    *)
(*   bases the base expressions of a class, dotted paths                   *)
(*   body  the indented block of a compound statement                      *)

BlankItem ==
    [kind |-> "pass", func |-> <<>>, kws |-> <<>>, sep |-> "nl",
     name |-> <<>>, bases |-> <<>>, body |-> <<>>]

StrLit(chars) == [quoted |-> TRUE, chars |-> chars]

Ident(chars) == [quoted |-> FALSE, chars |-> chars]

CallItem(f, ks, s) == [BlankItem EXCEPT !.kind = "call", !.func = f, !.kws = ks, !.sep = s]

AssignItem(s) == [BlankItem EXCEPT !.kind = "assign", !.sep = s]

DefItem(k, n) == [BlankItem EXCEPT !.kind = k, !.name = n, !.body = <<BlankItem>>]

ClassItem(n, bs, b) == [BlankItem EXCEPT !.kind = "class", !.name = n, !.bases = bs, !.body = b]

BlockItem(k, n, b) == [BlankItem EXCEPT !.kind = k, !.name = n, !.body = b]

\* an unterminated string literal
BadText == << [BlankItem EXCEPT !.kind = "unterminated"] >>

----------------------------------------------------------------------------
(* Source texts of BUILD files *)

KwTexts ==
    { [arg |-> "name", value |-> StrLit("calc_test")],
      [arg |-> "name", value |-> StrLit("calc")],
      [arg |-> "name", value |-> Ident("some_var")],
      [arg |-> "srcs", value |-> StrLit("calc_test.py")] }

KwSeqs(k) == [1..k -> KwTexts]

CallFuncs == { <<"python_test">>, <<"pkg", "rule">> }

NestedCall ==
    CallItem(<<"python_test">>, <<[arg |-> "name", value |-> StrLit("nested")]>>, "nl")

IsSimple(item) == item.kind \in {"call", "assign", "pass"}

\* the statements with exactly j keyword arguments
RuleItems(j) ==
    { CallItem(f, ks, s) : f \in CallFuncs, ks \in KwSeqs(j), s \in {"nl", ";"} }
    \cup (IF j # 0 THEN {} ELSE
            { AssignItem("nl"), AssignItem(";"),
              BlockItem("if", <<>>, <<NestedCall>>),
              BlockItem("def", <<"f">>, <<NestedCall>>) })

\* a statement follows another on its line only if both are simple statements
MayFollow(t, item) ==
    item.sep = ";" => t # <<>> /\ IsSimple(t[Len(t)]) /\ IsSimple(item)

----------------------------------------------------------------------------
(* Source texts of test files *)

test_a == <<"t", "e", "s", "t", "_", "a">>

test_b == <<"t", "e", "s", "t", "_", "b">>

a_test == <<"a", "_", "t", "e", "s", "t">>

BaseTexts ==
    { <<"unittest", "TestCase">>,
      <<"asynctest", "TestCase">>,
      <<"Bar", "TestCase">>,
      <<"TestCase">>,
      <<"pkg", "unittest", "TestCase">>,
      <<"Mid">> }

BaseSeqs(b) == [1..b -> BaseTexts]

InnerClass ==
    ClassItem(<<"I">>, << <<"unittest", "TestCase">> >>, <<DefItem("def", test_a)>>)

BodyItems ==
    { DefItem("def", test_a),
      DefItem("async def", test_b),
      DefItem("def", a_test),
      InnerClass,
      BlockItem("if", <<>>, <<DefItem("def", test_b)>>) }

BodySeqs(s) == [1..s -> BodyItems]

\* the top-level statements made of exactly j bases and body statements
TestItems(j) ==
    UNION { { ClassItem(<<"C">>, bs, b) : bs \in BaseSeqs(j - s), b \in BodySeqs(s) } :
            s \in 1..j }
    \cup (IF j # 0 THEN {} ELSE
            { DefItem("def", test_a), BlockItem("def", <<"f">>, <<InnerClass>>) })

----------------------------------------------------------------------------
(* ast.parse: the tree of a text, with the line each node starts on *)

SyntaxError == [type |-> "SyntaxError"]

RECURSIVE Height(_), StartOf(_, _, _)
\* the number of lines a written statement occupies: a call with keyword
\* arguments is written one argument per line between its parentheses, a
\* compound statement is its header line and its block
Height(item) ==
    CASE item.kind = "call" -> IF item.kws = <<>> THEN 1 ELSE Len(item.kws) + 2
      [] item.kind \in {"if", "def", "async def", "class"} ->
            StartOf(item.body, Len(item.body), 2) + Height(item.body[Len(item.body)]) - 1
      [] OTHER -> 1

\* the line statement i of a block starts on, the block starting on line first
StartOf(items, i, first) ==
    IF i = 1 THEN first
    ELSE LET prevEnd == StartOf(items, i - 1, first) + Height(items[i - 1]) - 1
         IN  IF items[i].sep = ";" THEN prevEnd ELSE prevEnd + 1

RECURSIVE ParseDotted(_)
ParseDotted(path) ==
    IF Len(path) = 1 THEN [type |-> "Name", id |-> path[1]]
    ELSE [type |-> "Attribute",
          value |-> ParseDotted(SubSeq(path, 1, Len(path) - 1)),
          attr |-> path[Len(path)]]

ParseValue(v) ==
    IF v.quoted THEN [type |-> "Str", s |-> v.chars]
    ELSE [type |-> "Name", id |-> v.chars]

ParseKeyword(kw) == [type |-> "keyword", arg |-> kw.arg, value |-> ParseValue(kw.value)]

ParseCall(item, line) ==
    [type |-> "Call",
     func |-> ParseDotted(item.func),
     keywords |-> [i \in 1..Len(item.kws) |-> ParseKeyword(item.kws[i])],
     lineno |-> line]

RECURSIVE ParseStmt(_, _), ParseBlock(_, _)
ParseStmt(item, line) ==
    CASE item.kind = "call" ->
            [type |-> "Expr", value |-> ParseCall(item, line), lineno |-> line]
      [] item.kind = "assign" ->
            [type |-> "Assign", value |-> [type |-> "Name", id |-> "some_var"],
             lineno |-> line]
      [] item.kind = "if" ->
            [type |-> "If", body |-> ParseBlock(item.body, line + 1), lineno |-> line]
      [] item.kind = "def" ->
            [type |-> "FunctionDef", name |-> item.name,
             body |-> ParseBlock(item.body, line + 1), lineno |-> line]
      [] item.kind = "async def" ->
            [type |-> "AsyncFunctionDef", name |-> item.name,
             body |-> ParseBlock(item.body, line + 1), lineno |-> line]
      [] item.kind = "class" ->
            [type |-> "ClassDef", name |-> item.name,
             bases |-> [i \in 1..Len(item.bases) |-> ParseDotted(item.bases[i])],
             body |-> ParseBlock(item.body, line + 1), lineno |-> line]
      [] OTHER -> [type |-> "Pass", lineno |-> line]

ParseBlock(items, first) ==
    [i \in 1..Len(items) |-> ParseStmt(items[i], StartOf(items, i, first))]

IsValidSyntax(text) == \A i \in 1..Len(text) : text[i].kind # "unterminated"

Parse(text) ==
    IF IsValidSyntax(text) THEN [type |-> "Module", body |-> ParseBlock(text, 1)]
    ELSE SyntaxError

----------------------------------------------------------------------------
(* get_rule_calls, lines 17-28: the walk over module_ast.body *)

\* a list shared by every call instead of a new one
NewList_Shared(previous) == previous

\* calls = []
NewList(previous) == << >>

IsRuleCall(stmt) ==
    /\ stmt.type = "Expr"
    /\ stmt.value.type = "Call"
    /\ stmt.value.func.type = "Name"

\* the test of the keyword's name left out
IsNameKeyword_AnyLiteral(kw) == kw.value.type = "Str"

IsNameKeyword(kw) == kw.arg = "name" /\ kw.value.type = "Str"

CallRecord(stmt, kw) ==
    [id |-> stmt.value.func.id, name |-> kw.value.s, line |-> stmt.value.lineno]

RECURSIVE KeywordLoop_Prepend(_, _, _)
\* calls.insert(0, ...) instead of calls.append(...)
KeywordLoop_Prepend(stmt, i, calls) ==
    IF i > Len(stmt.value.keywords) THEN calls
    ELSE LET kw == stmt.value.keywords[i]
         IN  KeywordLoop_Prepend(stmt, i + 1,
                                 IF IsNameKeyword(kw) THEN <<CallRecord(stmt, kw)>> \o calls
                                 ELSE calls)

RECURSIVE KeywordLoop(_, _, _)
\* for kw in stmt.value.keywords, from keyword i on
KeywordLoop(stmt, i, calls) ==
    IF i > Len(stmt.value.keywords) THEN calls
    ELSE LET kw == stmt.value.keywords[i]
         IN  KeywordLoop(stmt, i + 1,
                         IF IsNameKeyword(kw) THEN Append(calls, CallRecord(stmt, kw))
                         ELSE calls)

RECURSIVE RuleStmtLoop(_, _, _)
\* for stmt in module_ast.body, from statement i on
RuleStmtLoop(body, i, calls) ==
    IF i > Len(body) THEN calls
    ELSE RuleStmtLoop(body, i + 1,
                      IF IsRuleCall(body[i]) THEN KeywordLoop(body[i], 1, calls)
                      ELSE calls)

----------------------------------------------------------------------------
(* get_test_functions, lines 17-29: the walk over module_ast.body *)

TestPrefix == <<"t", "e", "s", "t">>

\* str.startswith
StartsWith(name, prefix) ==
    /\ Len(name) >= Len(prefix)
    /\ SubSeq(name, 1, Len(prefix)) = prefix

\* the test of the module alias left out
IsTestCaseBase_AnyModule(base) ==
    /\ base.type = "Attribute"
    /\ base.attr = "TestCase"
    /\ base.value.type = "Name"

IsTestCaseBase(base) ==
    /\ base.type = "Attribute"
    /\ base.attr = "TestCase"
    /\ base.value.type = "Name"
    /\ (base.value.id = "unittest" \/ base.value.id = "asynctest")

IsTestFunction(inner_stmt) ==
    /\ (inner_stmt.type = "FunctionDef" \/ inner_stmt.type = "AsyncFunctionDef")
    /\ StartsWith(inner_stmt.name, TestPrefix)

FuncRecord(inner_stmt) == [id |-> inner_stmt.name, line |-> inner_stmt.lineno]

RECURSIVE InnerStmtLoop(_, _, _)
\* for inner_stmt in stmt.body, from statement i on
InnerStmtLoop(stmt, i, funcs) ==
    IF i > Len(stmt.body) THEN funcs
    ELSE InnerStmtLoop(stmt, i + 1,
                       IF IsTestFunction(stmt.body[i])
                       THEN Append(funcs, FuncRecord(stmt.body[i]))
                       ELSE funcs)

RECURSIVE BaseLoop(_, _, _)
\* for base in stmt.bases, from base i on
BaseLoop(stmt, i, funcs) ==
    IF i > Len(stmt.bases) THEN funcs
    ELSE BaseLoop(stmt, i + 1,
                  IF IsTestCaseBase(stmt.bases[i]) THEN InnerStmtLoop(stmt, 1, funcs)
                  ELSE funcs)

RECURSIVE TestStmtLoop(_, _, _)
\* for stmt in module_ast.body, from statement i on
TestStmtLoop(body, i, funcs) ==
    IF i > Len(body) THEN funcs
    ELSE TestStmtLoop(body, i + 1,
                      IF body[i].type = "ClassDef" THEN BaseLoop(body[i], 1, funcs)
                      ELSE funcs)

----------------------------------------------------------------------------
(* json.dumps of a list of dicts, as the sequence of its tokens *)

Punct(c) == [t |-> "punct", v |-> c]

JsonString(v) == [t |-> "string", v |-> v]

JsonInt(v) == [t |-> "int", v |-> v]

RuleKeys == <<"id", "name", "line">>

TestKeys == <<"id", "line">>

JsonValue(k, v) == IF k = "line" THEN JsonInt(v) ELSE JsonString(v)

RECURSIVE JsonMembers(_, _, _)
\* the members of one dict, in insertion order, from key i on
JsonMembers(rec, keys, i) ==
    IF i > Len(keys) THEN << >>
    ELSE (IF i > 1 THEN <<Punct(", ")>> ELSE << >>)
         \o <<JsonString(keys[i]), Punct(": "), JsonValue(keys[i], rec[keys[i]])>>
         \o JsonMembers(rec, keys, i + 1)

RECURSIVE JsonElements(_, _, _)
JsonElements(list, keys, i) ==
    IF i > Len(list) THEN << >>
    ELSE (IF i > 1 THEN <<Punct(", ")>> ELSE << >>)
         \o <<Punct("{")>> \o JsonMembers(list[i], keys, 1) \o <<Punct("}")>>
         \o JsonElements(list, keys, i + 1)

JsonDumps(list, keys) == <<Punct("[")>> \o JsonElements(list, keys, 1) \o <<Punct("]")>>

----------------------------------------------------------------------------
(* The steps of a run *)

Tools == {"rule_calls", "test_functions"}

Keys(t) == IF t = "rule_calls" THEN RuleKeys ELSE TestKeys

UsageMessage(t) ==
    IF t = "rule_calls" THEN "Error: A BUILD filename is required."
    ELSE "Error: A file is required."

UsageLine(t) == << [t |-> "text", v |-> UsageMessage(t)] >>

\* an exception nobody in the scripts catches: it ends the program with
\* status 1, or reaches the importing caller
Raise(e) ==
    /\ exc' = e
    /\ IF variant = "import"
       THEN pc' = "idle" /\ invocations' = invocations + 1 /\ UNCHANGED exit_code
       ELSE pc' = "exited" /\ exit_code' = 1 /\ UNCHANGED invocations

\* if len(sys.argv) < 2 instead of != 2
MainArgs_AtLeastOne ==
    /\ pc = "start"
    /\ variant = "argument"
    /\ IF Len(argv) + 1 < 2
       THEN /\ stdout' = Append(stdout, UsageLine(tool))
            /\ exit_code' = 1
            /\ pc' = "exited"
       ELSE /\ pc' = "open"
            /\ UNCHANGED <<stdout, exit_code>>
    /\ UNCHANGED <<tool, variant, argv, fs, stdin, handle, read_data, module_ast,
                   result, exc, invocations, returned>>

\* if len(sys.argv) != 2: print(...); sys.exit(1)
MainArgs ==
    /\ pc = "start"
    /\ variant = "argument"
    /\ IF Len(argv) + 1 # 2
       THEN /\ stdout' = Append(stdout, UsageLine(tool))
            /\ exit_code' = 1
            /\ pc' = "exited"
       ELSE /\ pc' = "open"
            /\ UNCHANGED <<stdout, exit_code>>
    /\ UNCHANGED <<tool, variant, argv, fs, stdin, handle, read_data, module_ast,
                   result, exc, invocations, returned>>

\* with open(filename) as f:
Open ==
    /\ pc = "open"
    /\ IF fs[argv[1]].status = "absent"
       THEN /\ Raise("FileNotFoundError")
            /\ UNCHANGED handle
       ELSE /\ handle' = "open"
            /\ pc' = "read"
            /\ UNCHANGED <<exc, exit_code, invocations>>
    /\ UNCHANGED <<tool, variant, argv, fs, stdin, read_data, module_ast, result,
                   stdout, returned>>

\* read_data = f.read()
Read ==
    /\ pc = "read"
    /\ IF fs[argv[1]].status = "undecodable"
       THEN exc' = "UnicodeDecodeError" /\ UNCHANGED read_data
       ELSE read_data' = fs[argv[1]].text /\ UNCHANGED exc
    /\ pc' = "close"
    /\ UNCHANGED <<tool, variant, argv, fs, stdin, handle, module_ast, result,
                   stdout, exit_code, invocations, returned>>

\* f.close() after f.read() without a with block
Close_OnlyOnSuccess ==
    /\ pc = "close"
    /\ IF exc # "none"
       THEN Raise(exc) /\ UNCHANGED handle
       ELSE handle' = "closed" /\ pc' = "parse" /\ UNCHANGED <<exc, exit_code, invocations>>
    /\ UNCHANGED <<tool, variant, argv, fs, stdin, read_data, module_ast, result,
                   stdout, returned>>

\* leaving the with block, normally or with the exception of f.read()
Close ==
    /\ pc = "close"
    /\ handle' = "closed"
    /\ IF exc # "none"
       THEN Raise(exc)
       ELSE pc' = "parse" /\ UNCHANGED <<exc, exit_code, invocations>>
    /\ UNCHANGED <<tool, variant, argv, fs, stdin, read_data, module_ast, result,
                   stdout, returned>>

\* a SyntaxError caught and turned into an empty module
ParseSource_Swallow ==
    /\ pc = "parse"
    /\ module_ast' = IF Parse(read_data) = SyntaxError
                     THEN [type |-> "Module", body |-> << >>]
                     ELSE Parse(read_data)
    /\ pc' = "walk"
    /\ UNCHANGED <<tool, variant, argv, fs, stdin, handle, read_data, result,
                   stdout, exit_code, exc, invocations, returned>>

\* module_ast = ast.parse(read_data)
ParseSource ==
    /\ pc = "parse"
    /\ IF Parse(read_data) = SyntaxError
       THEN Raise("SyntaxError") /\ UNCHANGED module_ast
       ELSE /\ module_ast' = Parse(read_data)
            /\ pc' = "walk"
            /\ UNCHANGED <<exc, exit_code, invocations>>
    /\ UNCHANGED <<tool, variant, argv, fs, stdin, handle, read_data, result,
                   stdout, returned>>

\* calls = []; for stmt in module_ast.body: ...; return calls
WalkRule ==
    /\ pc = "walk"
    /\ tool = "rule_calls"
    /\ result' = RuleStmtLoop(module_ast.body, 1, NewList(result))
    /\ pc' = "return"
    /\ UNCHANGED <<tool, variant, argv, fs, stdin, handle, read_data, module_ast,
                   stdout, exit_code, exc, invocations, returned>>

\* funcs = []; for stmt in module_ast.body: ...; return funcs
WalkTest ==
    /\ pc = "walk"
    /\ tool = "test_functions"
    /\ result' = TestStmtLoop(module_ast.body, 1, NewList(result))
    /\ pc' = "return"
    /\ UNCHANGED <<tool, variant, argv, fs, stdin, handle, read_data, module_ast,
                   stdout, exit_code, exc, invocations, returned>>

\* print(json.dumps(rule_calls)), and the program ends
PrintJson ==
    /\ pc = "return"
    /\ variant # "import"
    /\ stdout' = Append(stdout, JsonDumps(result, Keys(tool)))
    /\ exit_code' = 0
    /\ pc' = "exited"
    /\ UNCHANGED <<tool, variant, argv, fs, stdin, handle, read_data, module_ast,
                   result, exc, invocations, returned>>

\* standard input left unread
ReadStdin_Nothing ==
    /\ pc = "start"
    /\ variant = "stream"
    /\ read_data' = << >>
    /\ pc' = "parse"
    /\ UNCHANGED <<tool, variant, argv, fs, stdin, handle, module_ast, result,
                   stdout, exit_code, exc, invocations, returned>>

\* the stream variant: read standard input to end-of-stream
ReadStdin ==
    /\ pc = "start"
    /\ variant = "stream"
    /\ read_data' = stdin
    /\ pc' = "parse"
    /\ UNCHANGED <<tool, variant, argv, fs, stdin, handle, module_ast, result,
                   stdout, exit_code, exc, invocations, returned>>

\* an importing caller calls get_rule_calls(f) or get_test_functions(f)
CallFunction ==
    /\ pc = "idle"
    /\ variant = "import"
    /\ invocations < MaxInvocations
    /\ \E t \in Tools, f \in {"src", "broken"} :
          /\ tool' = t
          /\ argv' = <<f>>
    /\ exc' = "none"
    /\ pc' = "open"
    /\ UNCHANGED <<variant, fs, stdin, handle, read_data, module_ast, result,
                   stdout, exit_code, invocations, returned>>

\* the list goes back to the importing caller
ReturnToCaller ==
    /\ pc = "return"
    /\ variant = "import"
    /\ returned' = [returned EXCEPT ![tool] = Append(@, [text |-> read_data, list |-> result])]
    /\ invocations' = invocations + 1
    /\ pc' = "idle"
    /\ UNCHANGED <<tool, variant, argv, fs, stdin, handle, read_data, module_ast,
                   result, stdout, exit_code, exc>>

----------------------------------------------------------------------------
(* Specifications *)

NoAst == [type |-> "None"]

File(text) == [status |-> "ok", text |-> text]

Absent == [status |-> "absent", text |-> << >>]

Undecodable == [status |-> "undecodable", text |-> << >>]

FileNames == {"src", "broken", "missing", "binary"}

\* the files on disk: src holds the text under analysis
FileSystem(text) ==
    [f \in FileNames |->
        CASE f = "src" -> File(text)
          [] f = "broken" -> File(BadText)
          [] f = "missing" -> Absent
          [] OTHER -> Undecodable]

Items(t, j) == IF t = "rule_calls" THEN RuleItems(j) ELSE TestItems(j)

RECURSIVE SomeText(_, _, _, _)
\* src holds text, or text followed by at most n more statements that have
\* at most k parts (keyword arguments; bases and body statements) in all
SomeText(t, n, k, text) ==
    \/ fs = FileSystem(text)
    \/ /\ n > 0
       /\ \E j \in 0..k : \E item \in Items(t, j) :
             /\ MayFollow(text, item)
             /\ SomeText(t, n - 1, k - j, Append(text, item))

InitLocals ==
    /\ handle = "none"
    /\ read_data = << >>
    /\ module_ast = NoAst
    /\ result = << >>
    /\ stdout = << >>
    /\ exit_code = -1
    /\ exc = "none"
    /\ invocations = 0
    /\ returned = [t \in Tools |-> << >>]

\* rule_calls.py run on one BUILD file, over every text within the bounds
InitRule ==
    /\ tool = "rule_calls"
    /\ variant = "argument"
    /\ argv = <<"src">>
    /\ SomeText(tool, MaxStmts, MaxKw, << >>) \/ fs = FileSystem(BadText)
    /\ stdin = << >>
    /\ pc = "start"
    /\ InitLocals

NextRule == MainArgs \/ Open \/ Read \/ Close \/ ParseSource \/ WalkRule \/ PrintJson

SpecRule == InitRule /\ [][NextRule]_vars

\* test_functions.py run on one file, over every text within the bounds
InitTest ==
    /\ tool = "test_functions"
    /\ variant = "argument"
    /\ argv = <<"src">>
    /\ SomeText(tool, MaxStmts, MaxNodes, << >>) \/ fs = FileSystem(BadText)
    /\ stdin = << >>
    /\ pc = "start"
    /\ InitLocals

NextTest == MainArgs \/ Open \/ Read \/ Close \/ ParseSource \/ WalkTest \/ PrintJson

SpecTest == InitTest /\ [][NextTest]_vars

ArgLists == UNION { [1..n -> FileNames] : n \in 0..MaxArgs }

\* the size of the texts the programs are started on
SampleParts(t) == IF t = "rule_calls" THEN 1 ELSE 2

\* either program, either variant, started with any argument list
InitTool ==
    /\ tool \in Tools
    /\ variant \in {"argument", "stream"}
    /\ argv \in IF variant = "stream" THEN { << >> } ELSE ArgLists
    /\ SomeText(tool, 1, SampleParts(tool), << >>) \/ fs = FileSystem(BadText)
    /\ stdin = IF variant = "stream" THEN fs["src"].text ELSE << >>
    /\ pc = "start"
    /\ InitLocals

NextTool ==
    \/ MainArgs \/ Open \/ Read \/ Close \/ ParseSource
    \/ WalkRule \/ WalkTest \/ PrintJson \/ ReadStdin

SpecTool == InitTool /\ [][NextTool]_vars

\* a caller that imports the modules and calls the two functions in any order
InitImport ==
    /\ tool \in Tools
    /\ variant = "import"
    /\ argv = << >>
    /\ SomeText(tool, 1, SampleParts(tool), << >>)
    /\ stdin = << >>
    /\ pc = "idle"
    /\ InitLocals

NextImport ==
    \/ CallFunction \/ Open \/ Read \/ Close \/ ParseSource
    \/ WalkRule \/ WalkTest \/ ReturnToCaller

SpecImport == InitImport /\ [][NextImport]_vars

----------------------------------------------------------------------------
(* Properties of get_rule_calls, checked under SpecRule *)

\* the walk of the parsed module is over
Walked == pc \in {"return", "exited"} /\ module_ast.type = "Module"

\* the text the program was started on is one ast.parse accepts
ValidInput == IsValidSyntax(fs["src"].text)

TopLevel == module_ast.body

\* the pairs <<statement, keyword>> of the top-level expression statements
\* that call a bare identifier and of their keywords name = "literal"
NamePairs ==
    UNION { { <<i, j>> : j \in { n \in 1..Len(TopLevel[i].value.keywords) :
                                   /\ TopLevel[i].value.keywords[n].arg = "name"
                                   /\ TopLevel[i].value.keywords[n].value.type = "Str" } } :
            i \in { m \in 1..Len(TopLevel) :
                      /\ TopLevel[m].type = "Expr"
                      /\ TopLevel[m].value.type = "Call"
                      /\ TopLevel[m].value.func.type = "Name" } }

PairRecord(p) ==
    [id |-> TopLevel[p[1]].value.func.id,
     name |-> TopLevel[p[1]].value.keywords[p[2]].value.s,
     line |-> TopLevel[p[1]].value.lineno]

Occurrences(list, r) == Cardinality({ k \in 1..Len(list) : list[k] = r })

\* C1: on a valid input get_rule_calls returns one record per pair of a
\* top-level call of a bare identifier and a keyword name = "literal" of it,
\* with id, name and line of that pair, and no other record; statements of
\* any other shape add nothing and raise nothing.
C1_OneRecordPerNameKeyword ==
    /\ Walked =>
          /\ Len(result) = Cardinality(NamePairs)
          /\ \A k \in 1..Len(result) : \E p \in NamePairs : result[k] = PairRecord(p)
          /\ \A p \in NamePairs :
                Occurrences(result, PairRecord(p))
                   = Cardinality({ q \in NamePairs : PairRecord(q) = PairRecord(p) })
    /\ (ValidInput /\ pc = "exited") => (exc = "none" /\ exit_code = 0)

\* a call of a bare identifier yields a record next to a call of an
\* attribute that has a name keyword and yields none
C1_Witness ==
    /\ Walked
    /\ Len(result) = 1
    /\ \E i \in 1..Len(TopLevel) :
          /\ TopLevel[i].type = "Expr"
          /\ TopLevel[i].value.func.type = "Attribute"
          /\ \E n \in 1..Len(TopLevel[i].value.keywords) :
                /\ TopLevel[i].value.keywords[n].arg = "name"
                /\ TopLevel[i].value.keywords[n].value.type = "Str"

PairBefore(p, q) == p[1] < q[1] \/ (p[1] = q[1] /\ p[2] < q[2])

PairRank(p) == Cardinality({ q \in NamePairs : PairBefore(q, p) }) + 1

\* C4: the records of get_rule_calls are in source order: statement by
\* statement, the records of one call next to each other in the order its
\* keywords are written, and the lines never decrease along the output.
C4_RuleRecordsInSourceOrder ==
    Walked =>
       /\ \A p \in NamePairs :
             PairRank(p) <= Len(result) /\ result[PairRank(p)] = PairRecord(p)
       /\ \A a, b \in 1..Len(result) : a < b => result[a].line <= result[b].line

\* one call with two different name = "literal" keywords
C4_Witness ==
    /\ Walked
    /\ Len(result) = 2
    /\ Len(TopLevel) = 1
    /\ result[1].name # result[2].name
    /\ result[1].line = result[2].line

----------------------------------------------------------------------------
(* Properties of get_test_functions, checked under SpecTest *)

IsRecognisedBase(base) ==
    /\ base.type = "Attribute"
    /\ base.attr = "TestCase"
    /\ base.value.type = "Name"
    /\ base.value.id \in {"unittest", "asynctest"}

Qualifies(stmt) ==
    /\ stmt.type = "ClassDef"
    /\ \E b \in 1..Len(stmt.bases) : IsRecognisedBase(stmt.bases[b])

IsTestMethod(stmt) ==
    /\ stmt.type \in {"FunctionDef", "AsyncFunctionDef"}
    /\ Len(stmt.name) >= 4
    /\ stmt.name[1] = "t" /\ stmt.name[2] = "e" /\ stmt.name[3] = "s" /\ stmt.name[4] = "t"

\* the pairs <<class, body statement>> of the test methods written directly
\* in a qualifying top-level class
TestMethods ==
    UNION { { <<i, j>> : j \in { n \in 1..Len(TopLevel[i].body) :
                                   IsTestMethod(TopLevel[i].body[n]) } } :
            i \in { m \in 1..Len(TopLevel) : Qualifies(TopLevel[m]) } }

MethodRecord(p) ==
    [id |-> TopLevel[p[1]].body[p[2]].name, line |-> TopLevel[p[1]].body[p[2]].lineno]

\* C2: each test method written directly in a qualifying top-level class
\* yields exactly one record, whatever the number of recognised bases.
C2_OneRecordPerTestMethod ==
    Walked => \A p \in TestMethods : Occurrences(result, MethodRecord(p)) = 1

\* C3: the lines of the records of get_test_functions strictly increase
\* along the output.
C3_StrictlyIncreasingLines ==
    Walked => \A a, b \in 1..Len(result) : a < b => result[a].line < result[b].line

\* C5: every record of get_test_functions is a function whose name starts
\* with test, written directly in the body of a top-level class that has a
\* base X.TestCase with X the bare identifier unittest or asynctest.
C5_OnlyDirectTestMethods ==
    Walked => \A k \in 1..Len(result) : \E p \in TestMethods : result[k] = MethodRecord(p)

\* a qualifying class yields a record next to a class without a recognised
\* base whose test method yields none
C5_Witness ==
    /\ Walked
    /\ result # << >>
    /\ \E i \in 1..Len(TopLevel) :
          /\ TopLevel[i].type = "ClassDef"
          /\ ~Qualifies(TopLevel[i])
          /\ \E n \in 1..Len(TopLevel[i].body) : IsTestMethod(TopLevel[i].body[n])

----------------------------------------------------------------------------
(* Properties of the programs, checked under SpecTool *)

WrongArgCount == variant = "argument" /\ Len(argv) # 1

UsageText ==
    IF tool = "rule_calls" THEN "Error: A BUILD filename is required."
    ELSE "Error: A file is required."

IsJsonLine(line) == line # << >> /\ line[1] = [t |-> "punct", v |-> "["]

\* C6: started with no argument or with two or more, either program prints
\* its usage message, exits with status 1, prints no JSON and never opens or
\* reads a file.
C6_UsageOnWrongArgCount ==
    WrongArgCount =>
       /\ handle = "none"
       /\ read_data = << >>
       /\ pc \in {"start", "exited"}
       /\ pc = "exited" =>
             /\ exit_code = 1
             /\ stdout = << <<[t |-> "text", v |-> UsageText]>> >>

\* test_functions.py ended after a start with two arguments
C6_Witness ==
    /\ variant = "argument"
    /\ tool = "test_functions"
    /\ Len(argv) = 2
    /\ pc = "exited"

\* the named file cannot be opened or read, or the text does not parse
InputFails ==
    \/ /\ variant = "argument"
       /\ Len(argv) = 1
       /\ (fs[argv[1]].status # "ok" \/ ~IsValidSyntax(fs[argv[1]].text))
    \/ /\ variant = "stream"
       /\ ~IsValidSyntax(stdin)

\* C7: a failure to open, read or parse ends the run with a nonzero status
\* and nothing on standard output; a JSON array is printed, once and followed
\* by exit 0, only in runs where the read and the parse succeeded.
C7_FailurePrintsNothing ==
    /\ exc # "none" => stdout = << >>
    /\ (InputFails /\ pc = "exited") => (exc # "none" /\ exit_code # 0 /\ stdout = << >>)
    /\ (\E k \in 1..Len(stdout) : IsJsonLine(stdout[k])) =>
          /\ Len(stdout) = 1
          /\ pc = "exited"
          /\ exit_code = 0
          /\ exc = "none"
          /\ ~InputFails

\* a run on a file that does not parse has ended
C7_Witness ==
    /\ variant = "argument"
    /\ pc = "exited"
    /\ exc = "SyntaxError"
    /\ exit_code = 1

\* C8: the stream variant, started without arguments, reads all of standard
\* input, runs the extractor on that text, prints the JSON array and exits
\* with status 0.
C8_StreamMode ==
    (variant = "stream" /\ argv = << >>) =>
       /\ pc # "start" => read_data = stdin
       /\ (pc = "exited" /\ IsValidSyntax(stdin)) =>
             /\ module_ast = Parse(stdin)
             /\ result = IF tool = "rule_calls"
                         THEN RuleStmtLoop(Parse(stdin).body, 1, << >>)
                         ELSE TestStmtLoop(Parse(stdin).body, 1, << >>)
             /\ stdout = << JsonDumps(result, Keys(tool)) >>
             /\ exit_code = 0

\* a stream run that printed a record has ended
C8_Witness ==
    /\ variant = "stream"
    /\ pc = "exited"
    /\ exit_code = 0
    /\ result # << >>
    /\ Len(stdout) = 1

\* C9: the file handle is open only during the read: closed before parsing
\* begins, never open during the parse, the walk or the output, closed when
\* the read raises, and never left open at the end of a run.
C9_HandleOpenOnlyDuringRead ==
    /\ handle = "open" => pc \in {"read", "close"}
    /\ (variant = "argument" /\ pc \in {"parse", "walk", "return"}) => handle = "closed"
    /\ (pc = "exited" /\ exc \in {"UnicodeDecodeError", "SyntaxError"}
          /\ variant = "argument") => handle = "closed"

\* a run whose read raised has ended
C9_Witness ==
    /\ pc = "exited"
    /\ exc = "UnicodeDecodeError"
    /\ handle = "closed"

----------------------------------------------------------------------------
(* Properties of repeated calls, checked under SpecImport *)

\* C10: two calls of the same function on identical text return identical
\* lists, whatever was called before or in between, and a call prints nothing.
C10_SameTextSameList ==
    /\ \A t \in Tools : \A a, b \in 1..Len(returned[t]) :
          returned[t][a].text = returned[t][b].text
             => returned[t][a].list = returned[t][b].list
    /\ stdout = << >>

\* a function returned records twice for one text, the other function
\* having returned in between
C10_Witness ==
    \E t \in Tools : \E a, b \in 1..Len(returned[t]) :
       /\ a < b
       /\ returned[t][a].text = returned[t][b].text
       /\ returned[t][a].list # << >>
       /\ \E u \in Tools \ {t} : returned[u] # << >>

====
